---------------------------- MODULE Spec2Model ----------------------------
(***************************************************************************)
(* MultilayerLSTMCell and MultilayerLSTM of pylego/ops.py as a state       *)
(* machine.                                                                *)
(*                                                                         *)
(* Tensors.  A tensor of shape [batch, width] is a sequence, indexed by    *)
(* the batch element, of rows; a row is a sequence of numbers.  Layers are *)
(* numbered 1..layers here and 0..layers-1 in the source, timesteps        *)
(* 1..length here and 0..length-1 in the source.  None is the empty        *)
(* sequence: no tensor, pair or list of the program is empty where None    *)
(* can stand.                                                              *)
(*                                                                         *)
(* Numbers.  reset values are counted in units of 1e-6, so that the        *)
(* literal 1e-6 of the source is 1 and the literal 1.0 is 1000000.  Hidden *)
(* and cell values are small non-negative integers on a grid of their own; *)
(* a product with (1.0 - reset) is rounded to that grid, as a floating     *)
(* point product is rounded to a representable value.                      *)
(***************************************************************************)
EXTENDS Integers, Sequences, FiniteSets

VARIABLES
    input_size, hidden_size, layers,          \* configuration (ops.py 206-216)
    every_layer_input, use_previous_higher,
    input_sizes,                              \* widths the LSTMCells were built with
    pc,                                       \* position in MultilayerLSTM.forward
    length,                                   \* input_.size(1)
    input_,                                   \* input_[t][b]: row of width input_size
    has_reset,                                \* reset is not None
    reset,                                    \* reset[t][b], the columns read so far
    t,                                        \* loop variable (timesteps done so far)
    hx,                                       \* carried state, None or list of (h, c)
    outputs,                                  \* list of snapshots
    result,                                   \* returned tensor, None before return
    computed,                                 \* computed[t]: what the cell returned at t
    trace,                                    \* trace[t]: the cell's call at t, layer by layer
    hx2, outputs2, reset2, input2             \* a second run, for the comparison of two runs

cfg  == <<input_size, hidden_size, layers, every_layer_input,
          use_previous_higher, input_sizes>>
run1 == <<pc, length, input_, has_reset, reset, t, hx, outputs, result,
          computed, trace>>
run2 == <<hx2, outputs2, reset2, input2>>
vars == <<cfg, run1, run2>>

---------------------------------------------------------------------------
(* Bounds of the model *)
MaxLen    == 2     \* longest input sequence
MaxLayers == 3     \* largest number of layers
MaxSize   == 2     \* largest input_size and hidden_size

(* Literals of the source, in units of 1e-6 *)
Threshold == 1          \* 1e-6
One       == 1000000    \* 1.0
Half      == One \div 2 \* 0.5, a value between the two

None  == <<>>
Batch == {1, 2}         \* a batch element and another one
Other(b) == CHOOSE o \in Batch : o # b

---------------------------------------------------------------------------
(* Tensor primitives of the library *)

RECURSIVE SumSeq(_)
SumSeq(s) == IF s = <<>> THEN 0 ELSE Head(s) + SumSeq(Tail(s))

\* the sequence s, written out element by element
Tuple(s) == s \o <<>>

\* torch.cat([a, b], dim=1) of two [batch, *] tensors
Cat(a, b) == Tuple([bb \in Batch |-> a[bb] \o b[bb]])

\* x.new_zeros([batch, w])
Zeros(w) == Tuple([bb \in Batch |-> Tuple([j \in 1..w |-> 0])])

\* x.size(1) of a [batch, *] tensor
Width(x) == Len(x[1])

\* a * f for a value a of the state and a factor f in units of 1e-6
Mul(a, f) == (a * f) \div One

(***************************************************************************)
(* nn.LSTMCell(input_sizes[i], hidden_size) applied to (x, hxi).  The      *)
(* recurrence itself is the library's; what the model keeps of it: an      *)
(* absent state is a zero state, every batch row is transformed on its     *)
(* own, the result is a pair (h, c) of [batch, hidden_size] tensors that   *)
(* depends on the layer's weights, on the input row and on the previous    *)
(* (h, c) row.                                                             *)
(***************************************************************************)
LSTMCell(i, x, hxi) ==
    LET h0 == IF hxi = None THEN Zeros(hidden_size) ELSE hxi[1]
        c0 == IF hxi = None THEN Zeros(hidden_size) ELSE hxi[2]
        s(b)     == SumSeq(x[b]) + 2 * SumSeq(h0[b]) + i
        cn(b, j) == ((c0[b][j] + s(b) + j) % 7) + 1
        hn(b, j) == ((2 * cn(b, j) + s(b) + h0[b][j]) % 5) + 1
    IN  << Tuple([b \in Batch |-> Tuple([j \in 1..hidden_size |-> hn(b, j)])]),
           Tuple([b \in Batch |-> Tuple([j \in 1..hidden_size |-> cn(b, j)])]) >>

---------------------------------------------------------------------------
(* MultilayerLSTMCell.__init__ *)

\* ConstructInputSizes with range(1, layers - 1) in line 222: layer 0 left out
ConstructInputSizesRawFirst(isz, hsz, L, eli, uph) ==
    LET s0 == [i \in 1..L |-> IF i = 1 THEN isz ELSE hsz]
        s1 == [i \in 1..L |-> IF eli /\ i >= 2 THEN s0[i] + isz ELSE s0[i]]
        s2 == [i \in 1..L |-> IF uph /\ i >= 2 /\ i <= L - 1 THEN s1[i] + hsz ELSE s1[i]]
    IN  Tuple(s2)

ConstructInputSizes(isz, hsz, L, eli, uph) ==
    LET s0 == [i \in 1..L |-> IF i = 1 THEN isz ELSE hsz]
        s1 == [i \in 1..L |-> IF eli /\ i >= 2 THEN s0[i] + isz ELSE s0[i]]
        s2 == [i \in 1..L |-> IF uph /\ i <= L - 1 THEN s1[i] + hsz ELSE s1[i]]
    IN  Tuple(s2)

---------------------------------------------------------------------------
(* MultilayerLSTMCell.forward *)

\* the state of the loop before its first iteration
CellStart(x) == [recent |-> x, outputs |-> <<>>, layer |-> <<>>, ok |-> TRUE]

\* LayerStep with `outputs = [out]` for `outputs.append(out)`
LayerStepKeepLast(st, i, x, hxl) ==
    LET r1      == IF i > 1 /\ every_layer_input THEN Cat(st.recent, x) ELSE st.recent
        useprev == i < layers /\ use_previous_higher
        absent  == useprev /\ hxl[i + 1] = None
        prev    == IF hxl[i + 1] = None THEN Zeros(hidden_size) ELSE hxl[i + 1][1]
        r2      == IF useprev THEN Cat(r1, prev) ELSE r1
        out     == LSTMCell(i, r2, hxl[i])
    IN  [recent  |-> out[1],
         outputs |-> <<out>>,
         layer   |-> Append(st.layer,
                        [index       |-> i,
                         fed         |-> r2,
                         prev        |-> IF useprev THEN prev ELSE None,
                         substituted |-> absent]),
         ok      |-> st.ok /\ Width(r2) = input_sizes[i]]

\* LayerStep without the `layer > 0` of line 236
LayerStepInputAtEveryLayer(st, i, x, hxl) ==
    LET r1      == IF every_layer_input THEN Cat(st.recent, x) ELSE st.recent
        useprev == i < layers /\ use_previous_higher
        absent  == useprev /\ hxl[i + 1] = None
        prev    == IF hxl[i + 1] = None THEN Zeros(hidden_size) ELSE hxl[i + 1][1]
        r2      == IF useprev THEN Cat(r1, prev) ELSE r1
        out     == LSTMCell(i, r2, hxl[i])
    IN  [recent  |-> out[1],
         outputs |-> Append(st.outputs, out),
         layer   |-> Append(st.layer,
                        [index       |-> i,
                         fed         |-> r2,
                         prev        |-> IF useprev THEN prev ELSE None,
                         substituted |-> absent]),
         ok      |-> st.ok /\ Width(r2) = input_sizes[i]]

\* LayerStep with hx[layer] for hx[layer + 1] in lines 239-242
LayerStepOwnPrevious(st, i, x, hxl) ==
    LET r1      == IF i > 1 /\ every_layer_input THEN Cat(st.recent, x) ELSE st.recent
        useprev == i < layers /\ use_previous_higher
        absent  == useprev /\ hxl[i] = None
        prev    == IF hxl[i] = None THEN Zeros(hidden_size) ELSE hxl[i][1]
        r2      == IF useprev THEN Cat(r1, prev) ELSE r1
        out     == LSTMCell(i, r2, hxl[i])
    IN  [recent  |-> out[1],
         outputs |-> Append(st.outputs, out),
         layer   |-> Append(st.layer,
                        [index       |-> i,
                         fed         |-> r2,
                         prev        |-> IF useprev THEN prev ELSE None,
                         substituted |-> absent]),
         ok      |-> st.ok /\ Width(r2) = input_sizes[i]]

\* one iteration of `for layer in range(self.layers)`, for layer i
LayerStep(st, i, x, hxl) ==
    LET r1      == IF i > 1 /\ every_layer_input THEN Cat(st.recent, x) ELSE st.recent
        useprev == i < layers /\ use_previous_higher
        absent  == useprev /\ hxl[i + 1] = None
        prev    == IF hxl[i + 1] = None THEN Zeros(hidden_size) ELSE hxl[i + 1][1]
        r2      == IF useprev THEN Cat(r1, prev) ELSE r1
        out     == LSTMCell(i, r2, hxl[i])
    IN  [recent  |-> out[1],
         outputs |-> Append(st.outputs, out),
         layer   |-> Append(st.layer,
                        [index       |-> i,
                         fed         |-> r2,
                         prev        |-> IF useprev THEN prev ELSE None,
                         substituted |-> absent]),
         ok      |-> st.ok /\ Width(r2) = input_sizes[i]]

RECURSIVE CellLoop(_, _, _, _)
CellLoop(st, i, x, hxl) ==
    IF i > layers THEN st ELSE CellLoop(LayerStep(st, i, x, hxl), i + 1, x, hxl)

\* CellForward called as self.cell(input_[:, t]), the state not passed on
CellForwardStateless(x, h) ==
    CellLoop(CellStart(x), 1, x, Tuple([i \in 1..layers |-> None]))

CellForward(x, h) ==
    LET hxl == IF h = None THEN Tuple([i \in 1..layers |-> None]) ELSE h
    IN  CellLoop(CellStart(x), 1, x, hxl)

---------------------------------------------------------------------------
(* MultilayerLSTM.forward *)

\* torch.cat([h[:, None, None, :] for (h, c) in hx], dim=2): [batch, 1, layers, hidden]
Snapshot(h) == Tuple([b \in Batch |-> << Tuple([i \in 1..Len(h) |-> h[i][1][b]]) >>])

\* torch.any(reset_t > 1e-6)
AnyReset(reset_t) == \E b \in Batch : reset_t[b] > Threshold

\* h * (1.0 - reset_t), reset_t of shape [batch, 1] broadcast over the row
Scale(x, reset_t) ==
    Tuple([b \in Batch |-> Tuple([j \in 1..Len(x[b]) |-> Mul(x[b][j], One - reset_t[b])])])

\* ApplyReset that leaves the cell vectors alone
ApplyResetHiddenOnly(h, reset_t) ==
    IF AnyReset(reset_t)
    THEN Tuple([i \in 1..Len(h) |-> << Scale(h[i][1], reset_t), h[i][2] >>])
    ELSE h

\* ApplyReset with the largest reset of the batch applied to every element
ApplyResetWholeBatch(h, reset_t) ==
    LET m   == CHOOSE v \in {reset_t[b] : b \in Batch} : \A b \in Batch : reset_t[b] <= v
        all == Tuple([b \in Batch |-> m])
    IN  IF AnyReset(reset_t)
        THEN Tuple([i \in 1..Len(h) |-> << Scale(h[i][1], all), Scale(h[i][2], all) >>])
        ELSE h

\* lines 267-271 for a supplied reset
ApplyReset(h, reset_t) ==
    IF AnyReset(reset_t)
    THEN Tuple([i \in 1..Len(h) |-> << Scale(h[i][1], reset_t), Scale(h[i][2], reset_t) >>])
    ELSE h

\* torch.cat(outputs, dim=1): [batch, length, layers, hidden]
RECURSIVE CatTime(_, _)
CatTime(outs, b) ==
    IF outs = <<>> THEN <<>> ELSE Head(outs)[b] \o CatTime(Tail(outs), b)

CatOutputs(outs) == Tuple([b \in Batch |-> CatTime(outs, b)])

---------------------------------------------------------------------------
(* Inputs *)

ResetValues == {0, Threshold, Half, One}
Binary      == {0, One}

\* reset[:, t]: at most one of the two values is neither 0.0 nor 1.0
ResetColumns == {<<r, o>> : r \in ResetValues, o \in Binary}
                   \cup {<<o, r>> : r \in ResetValues, o \in Binary}

\* an input tensor [length, batch, input_size]; seed[b] selects the rows of element b
InputTensor(seed, n) ==
    Tuple([tt \in 1..n |-> Tuple([b \in Batch |->
              Tuple([j \in 1..input_size |-> 1 + ((seed[b] + tt + j) % 3)])])])

InputSeeds == {<<0, 1>>, <<1, 0>>}

---------------------------------------------------------------------------
Init ==
    /\ input_size \in 1..MaxSize
    /\ hidden_size \in 1..MaxSize
    /\ layers \in 1..MaxLayers
    /\ every_layer_input \in BOOLEAN
    /\ use_previous_higher \in BOOLEAN
    /\ input_sizes = ConstructInputSizes(input_size, hidden_size, layers,
                                         every_layer_input, use_previous_higher)
    /\ pc = "idle"
    /\ length = 0
    /\ input_ = <<>>
    /\ has_reset = FALSE
    /\ reset = <<>>
    /\ t = 0
    /\ hx = None
    /\ outputs = <<>>
    /\ result = None
    /\ computed = <<>>
    /\ trace = <<>>
    /\ hx2 = None
    /\ outputs2 = <<>>
    /\ reset2 = <<>>
    /\ input2 = <<>>

\* forward(input_, reset) is entered: hx = None, outputs = []
Call ==
    /\ pc = "idle"
    /\ \E n \in 0..MaxLen, seed \in InputSeeds :
          /\ length' = n
          /\ input_' = InputTensor(seed, n)
    /\ has_reset' \in BOOLEAN
    /\ pc' = "loop"
    /\ UNCHANGED <<cfg, reset, t, hx, outputs, result, computed, trace, run2>>

\* line 265: hx = self.cell(input_[:, t], hx)
Cell ==
    /\ pc = "loop"
    /\ t < length
    /\ \E st \in {CellForward(input_[t + 1], hx)} :
          /\ hx' = st.outputs
          /\ computed' = Append(computed, st.outputs)
          /\ trace' = Append(trace, [t |-> t, hx_in |-> hx, layer |-> st.layer])
          /\ pc' = IF st.ok THEN "snapshot" ELSE "shape_error"
    /\ UNCHANGED <<cfg, length, input_, has_reset, reset, t, outputs, result, run2>>

\* line 266: outputs.append(...)
Snap ==
    /\ pc = "snapshot"
    /\ outputs' = Append(outputs, Snapshot(hx))
    /\ pc' = "reset"
    /\ UNCHANGED <<cfg, length, input_, has_reset, reset, t, hx, result, computed, trace, run2>>

\* Reset with the snapshot of line 266 taken after the reset
ResetThenSnapshot ==
    /\ pc = "reset"
    /\ IF has_reset
       THEN \E col \in ResetColumns :
               /\ reset' = Append(reset, col)
               /\ hx' = ApplyReset(hx, col)
       ELSE UNCHANGED <<reset, hx>>
    /\ outputs' = Append(SubSeq(outputs, 1, Len(outputs) - 1), Snapshot(hx'))
    /\ t' = t + 1
    /\ pc' = "loop"
    /\ UNCHANGED <<cfg, length, input_, has_reset, result, computed, trace, run2>>

\* lines 267-271, and the loop's step
Reset ==
    /\ pc = "reset"
    /\ IF has_reset
       THEN \E col \in ResetColumns :
               /\ reset' = Append(reset, col)
               /\ hx' = ApplyReset(hx, col)
       ELSE UNCHANGED <<reset, hx>>
    /\ t' = t + 1
    /\ pc' = "loop"
    /\ UNCHANGED <<cfg, length, input_, has_reset, outputs, result, computed, trace, run2>>

\* line 273: return torch.cat(outputs, dim=1); torch.cat raises on an empty list
Return ==
    /\ pc = "loop"
    /\ t >= length
    /\ IF outputs = <<>>
       THEN pc' = "cat_error" /\ UNCHANGED result
       ELSE pc' = "done" /\ result' = CatOutputs(outputs)
    /\ UNCHANGED <<cfg, length, input_, has_reset, reset, t, hx, outputs, computed, trace, run2>>

Next == Call \/ Cell \/ Snap \/ Reset \/ Return

Spec == Init /\ [][Next]_vars

---------------------------------------------------------------------------
(***************************************************************************)
(* Two runs of forward side by side, for the comparison of what one batch  *)
(* element sees.  Both runs have the configuration, the length and the     *)
(* presence of reset in common; element 1 has the same input rows and the  *)
(* same reset values in both; element 2 has other input rows and freely    *)
(* chosen reset values in each run.  Run 1 is (input_, reset, hx,          *)
(* outputs), run 2 is (input2, reset2, hx2, outputs2).                     *)
(***************************************************************************)

\* lines 267-271: the state the loop carries on from what the cell returned
Carry(h, col) == IF has_reset THEN ApplyReset(h, col) ELSE h

CallPair ==
    /\ pc = "idle"
    /\ \E n \in 0..MaxLen, s \in {0, 1} :
          /\ length' = n
          /\ input_' = InputTensor(<<s, 0>>, n)
          /\ input2' = InputTensor(<<s, 1>>, n)
    /\ has_reset' \in BOOLEAN
    /\ pc' = "pair"
    /\ UNCHANGED <<cfg, reset, t, hx, outputs, result, computed, trace,
                   hx2, outputs2, reset2>>

\* one iteration of the loop of lines 264-271 in both runs
IterPair ==
    /\ pc = "pair"
    /\ t < length
    /\ \E h1 \in {CellForward(input_[t + 1], hx).outputs},
          h2 \in {CellForward(input2[t + 1], hx2).outputs} :
          /\ outputs' = Append(outputs, Snapshot(h1))
          /\ outputs2' = Append(outputs2, Snapshot(h2))
          /\ IF has_reset
             THEN \E r \in ResetValues, o1 \in Binary, o2 \in Binary :
                     /\ hx' = Carry(h1, <<r, o1>>)
                     /\ hx2' = Carry(h2, <<r, o2>>)
                     /\ reset' = Append(reset, <<r, o1>>)
                     /\ reset2' = Append(reset2, <<r, o2>>)
             ELSE /\ hx' = Carry(h1, None)
                  /\ hx2' = Carry(h2, None)
                  /\ UNCHANGED <<reset, reset2>>
    /\ t' = t + 1
    /\ UNCHANGED <<cfg, pc, length, input_, has_reset, result, computed, trace, input2>>

NextPair == CallPair \/ IterPair

SpecPair == Init /\ [][NextPair]_vars

---------------------------------------------------------------------------
(* Properties *)

ZeroRow == Tuple([j \in 1..hidden_size |-> 0])

IsTensor(x, w) == Len(x) = Cardinality(Batch) /\ \A b \in Batch : Len(x[b]) = w

IsStack(h) ==
    /\ Len(h) = layers
    /\ \A i \in 1..layers :
          Len(h[i]) = 2 /\ IsTensor(h[i][1], hidden_size) /\ IsTensor(h[i][2], hidden_size)

\* the timesteps whose carried state has been fed into the next call of the cell
Fed == 1..(Len(trace) - 1)

\* the state the cell was given at the timestep after tt
Carried(tt) == trace[tt + 1].hx_in

\* the last n elements of a row
Last(row, n) == SubSeq(row, Len(row) - n + 1, Len(row))

\* C1 as claimed: whenever reset[b, t] exceeds 1e-6, whatever its value, the state
\* of element b fed into timestep t+1 is exactly zero, hidden and cell, in every layer.
C1_AnyResetAboveThresholdZeroes ==
    \A tt \in Fed, b \in Batch :
        (has_reset /\ reset[tt][b] > Threshold) =>
            \A i \in 1..layers :
                Carried(tt)[i][1][b] = ZeroRow /\ Carried(tt)[i][2][b] = ZeroRow

\* C1 amended: whenever reset[b, t] is exactly 1.0, the state of element b fed into
\* timestep t+1 is exactly zero, hidden and cell, in every layer.
C1_ResetOneZeroes ==
    \A tt \in Fed, b \in Batch :
        (has_reset /\ reset[tt][b] = One) =>
            \A i \in 1..layers :
                Carried(tt)[i][1][b] = ZeroRow /\ Carried(tt)[i][2][b] = ZeroRow

C1_Witness ==
    \E tt \in Fed, b \in Batch :
        /\ has_reset /\ reset[tt][b] = One
        /\ layers >= 2
        /\ \A i \in 1..layers : computed[tt][i][1][b] # ZeroRow /\ computed[tt][i][2][b] # ZeroRow
        /\ Carried(tt)[layers][2][b] = ZeroRow

\* C2: the snapshot recorded for timestep t holds the hidden vectors the cell computed
\* at t, for every batch element and layer, whatever reset[b, t] is, at every later
\* point of the run and in the returned tensor.
C2_OutputIsComputedHidden ==
    /\ \A tt \in 1..Len(outputs), b \in Batch, i \in 1..layers :
          outputs[tt][b][1][i] = computed[tt][i][1][b]
    /\ pc = "done" =>
          \A tt \in 1..length, b \in Batch, i \in 1..layers :
              result[b][tt][i] = computed[tt][i][1][b]

C2_Witness ==
    /\ pc = "done" /\ has_reset /\ length >= 2
    /\ \E b \in Batch :
          /\ reset[1][b] = One
          /\ result[b][1][1] = computed[1][1][1][b]
          /\ result[b][1][1] # ZeroRow
          /\ Carried(1)[1][1][b] = ZeroRow

\* C3 as claimed: an element whose reset[b, t] does not exceed 1e-6 has the pair the
\* cell computed at t carried unchanged into t+1 in every layer, whatever the reset
\* values of the other elements.
C3_NotAboveThresholdUnchanged ==
    \A tt \in Fed, b \in Batch :
        (has_reset /\ reset[tt][b] <= Threshold) =>
            \A i \in 1..layers :
                /\ Carried(tt)[i][1][b] = computed[tt][i][1][b]
                /\ Carried(tt)[i][2][b] = computed[tt][i][2][b]

\* C3 amended: an element whose reset[b, t] is exactly 0.0, whatever the reset values
\* of the other elements, or whose reset[b, t] does not exceed 1e-6 while no element's
\* reset at t exceeds 1e-6, has the pair the cell computed at t carried unchanged into
\* t+1 in every layer.
C3_ZeroResetUnchanged ==
    \A tt \in Fed, b \in Batch :
        (/\ has_reset
         /\ \/ reset[tt][b] = 0
            \/ \A o \in Batch : reset[tt][o] <= Threshold) =>
            \A i \in 1..layers :
                /\ Carried(tt)[i][1][b] = computed[tt][i][1][b]
                /\ Carried(tt)[i][2][b] = computed[tt][i][2][b]

C3_Witness ==
    \E tt \in Fed, b \in Batch :
        /\ has_reset /\ reset[tt][b] = 0 /\ reset[tt][Other(b)] = One
        /\ Carried(tt)[1][1][b] = computed[tt][1][1][b]
        /\ Carried(tt)[1][1][Other(b)] # computed[tt][1][1][Other(b)]

\* C4 as claimed: in every configuration the recurrent unit of layer 0 is constructed
\* with input width exactly input_size.
C4_FirstWidthIsInputSize == input_sizes[1] = input_size

\* C4 amended: the recurrent unit of layer 0 is constructed with input width
\* input_size, plus hidden_size when use_previous_higher is set and layers > 1.
C4_FirstWidth ==
    input_sizes[1] =
        input_size + (IF use_previous_higher /\ layers > 1 THEN hidden_size ELSE 0)

C4_Witness ==
    /\ use_previous_higher /\ layers > 1
    /\ input_sizes[1] = input_size + hidden_size
    /\ pc = "done"

\* C5 as claimed: for every input sequence forward runs the cell once per timestep in
\* the order t = 0..length-1, stops, and returns a tensor of shape
\* [batch, length, layers, hidden_size], one entry per timestep in timestep order, each
\* with the hidden vector of every layer in layer order.
C5_ReturnsShape ==
    /\ pc # "cat_error"
    /\ pc = "done" =>
          /\ Len(trace) = length
          /\ \A tt \in 1..length : trace[tt].t = tt - 1
          /\ Len(result) = Cardinality(Batch)
          /\ \A b \in Batch :
                /\ Len(result[b]) = length
                /\ \A tt \in 1..length :
                      /\ Len(result[b][tt]) = layers
                      /\ \A i \in 1..layers :
                            /\ Len(result[b][tt][i]) = hidden_size
                            /\ result[b][tt][i] = computed[tt][i][1][b]

\* C6: with use_previous_higher, at timestep 0 every layer below the topmost gets a
\* zero vector of width hidden_size as the previous-higher component of its input; at
\* every later timestep no zero vector is substituted, the higher layer has a state.
C6_ZeroSubstitution ==
    use_previous_higher =>
        \A tt \in 1..Len(trace), i \in 1..(layers - 1) :
            LET e == trace[tt].layer[i]
            IN  /\ tt = 1 =>
                      /\ e.substituted
                      /\ \A b \in Batch :
                            /\ e.prev[b] = ZeroRow
                            /\ Last(e.fed[b], hidden_size) = ZeroRow
                /\ tt > 1 =>
                      /\ ~e.substituted
                      /\ trace[tt].hx_in # None
                      /\ \A b \in Batch : e.prev[b] = trace[tt].hx_in[i + 1][1][b]

C6_Witness ==
    /\ use_previous_higher /\ layers >= 2 /\ Len(trace) >= 2
    /\ trace[1].layer[1].substituted
    /\ ~trace[2].layer[1].substituted

\* C7: after every timestep, reset or not, the carried state is a sequence of exactly
\* `layers` (hidden, cell) pairs of [batch, hidden_size] tensors, and pair i of what the
\* cell returns is the one its layer i produced.
C7_StackLength ==
    /\ (pc \in {"snapshot", "reset"} \/ (pc \in {"loop", "done"} /\ t > 0)) => IsStack(hx)
    /\ \A tt \in Fed : IsStack(Carried(tt))
    /\ \A tt \in 1..Len(computed) : IsStack(computed[tt])
    /\ pc = "snapshot" =>
          \A i \in 1..layers :
              hx[i] = LSTMCell(i, trace[t + 1].layer[i].fed,
                               IF trace[t + 1].hx_in = None THEN None
                               ELSE trace[t + 1].hx_in[i])

C7_Witness ==
    /\ pc = "loop" /\ t >= 2 /\ layers >= 2
    /\ has_reset /\ AnyReset(reset[1]) /\ ~AnyReset(reset[2])
    /\ Len(hx) = layers

\* C8: in every configuration and for every layer the input the cell assembles has the
\* width the layer's recurrent unit was constructed with; for layers 1..L-1 that width
\* is hidden_size, plus input_size if every_layer_input, plus hidden_size if
\* use_previous_higher and the layer is not the topmost.
C8_Widths ==
    /\ pc # "shape_error"
    /\ \A tt \in 1..Len(trace), i \in 1..layers, b \in Batch :
          Len(trace[tt].layer[i].fed[b]) = input_sizes[i]
    /\ \A i \in 2..layers :
          input_sizes[i] = hidden_size
                             + (IF every_layer_input THEN input_size ELSE 0)
                             + (IF use_previous_higher /\ i < layers THEN hidden_size ELSE 0)

C8_Witness ==
    /\ pc = "done" /\ length >= 2
    /\ layers >= 3 /\ every_layer_input /\ use_previous_higher
    /\ input_size # hidden_size
    /\ Len(trace[2].layer[2].fed[1]) = 2 * hidden_size + input_size

\* the state the loop carries out of timestep tt, from what the cell computed there
AfterReset(tt) ==
    IF has_reset THEN ApplyReset(computed[tt], reset[tt]) ELSE computed[tt]

\* C9: the cell runs its layers in ascending order; layer l >= 1 is fed the hidden
\* output layer l-1 produced in the same timestep; with use_previous_higher, layer
\* l < layers-1 at timestep t >= 1 is fed the hidden state of layer l+1 of timestep t-1
\* as it is after that timestep's reset: the state the cell is given at t is what it
\* computed at t-1 with the reset of t-1 applied.
C9_LayerOrderAndStaleHigher ==
    /\ \A tt \in Fed : Carried(tt) = AfterReset(tt)
    /\ \A tt \in 1..Len(trace), i \in 1..layers :
          LET e == trace[tt].layer[i]
          IN  /\ Len(trace[tt].layer) = layers
              /\ e.index = i
              /\ i >= 2 =>
                    \A b \in Batch :
                        SubSeq(e.fed[b], 1, hidden_size) = computed[tt][i - 1][1][b]
              /\ (use_previous_higher /\ i < layers /\ tt >= 2) =>
                    \A b \in Batch :
                        Last(e.fed[b], hidden_size) = Carried(tt - 1)[i + 1][1][b]

C9_Witness ==
    /\ use_previous_higher /\ layers >= 3 /\ Len(trace) >= 2
    /\ has_reset /\ reset[1][1] = Half
    /\ Last(trace[2].layer[2].fed[1], hidden_size) # computed[1][3][1][1]
    /\ Last(trace[2].layer[2].fed[1], hidden_size) # computed[2][3][1][1]

\* what element 1 has seen and produced agrees in the two runs
SameForFirst ==
    /\ \A tt \in 1..Len(outputs) : outputs[tt][1] = outputs2[tt][1]
    /\ (hx = None) = (hx2 = None)
    /\ hx # None =>
          \A i \in 1..layers : hx[i][1][1] = hx2[i][1][1] /\ hx[i][2][1] = hx2[i][2][1]

\* C10 as claimed: two runs that give an element the same inputs and the same reset
\* values give it the same outputs and the same carried state at every timestep,
\* however the inputs and reset values of the other elements differ.
C10_NonInterference ==
    (/\ \A tt \in 1..Len(input_) : input_[tt][1] = input2[tt][1]
     /\ \A tt \in 1..Len(reset) : reset[tt][1] = reset2[tt][1]) => SameForFirst

\* C10 amended: the same, for an element each of whose reset values is exactly 0.0 or
\* exceeds 1e-6.
C10_NonInterferenceZeroOrAbove ==
    (/\ \A tt \in 1..Len(input_) : input_[tt][1] = input2[tt][1]
     /\ \A tt \in 1..Len(reset) :
           /\ reset[tt][1] = reset2[tt][1]
           /\ reset[tt][1] = 0 \/ reset[tt][1] > Threshold) => SameForFirst

C10_Witness ==
    /\ pc = "pair" /\ t >= 2 /\ has_reset
    /\ reset[1] = <<0, One>> /\ reset2[1] = <<0, 0>>
    /\ reset[2] = <<Half, 0>> /\ reset2[2] = <<Half, One>>
    /\ input_[1][2] # input2[1][2]
    /\ hx[1][1][2] # hx2[1][1][2]
    /\ hx[1][1][1] = hx2[1][1][1]

===========================================================================
